---- MODULE Spec2Model ----
(***************************************************************************)
(* Model of src/strategies/avellaneda_stoikov.rs: the rolling window       *)
(* StrategyData, the event loop run_forever, the tick handler on_tick with *)
(* its stoploss / stop-profit / quote branches, the spawned quote units    *)
(* and the account handler on_account.                                     *)
(*                                                                         *)
(* f64 values are modelled as exact rationals <<n, d>> with d > 0 in       *)
(* lowest terms; u64 times are naturals (milliseconds since the epoch, so  *)
(* the second-granular subtractions of on_tick never go below zero).       *)
(***************************************************************************)
EXTENDS Integers, Sequences, FiniteSets, TLC

VARIABLES
    config,          \* Config: the configured values copied by new()
    start_time,      \* AvellanedaStoikov.start_time (ms)
    strategy_data,   \* StrategyData: capacity and the nine VecDeques
    position,        \* Position {position_amount, entry_price}
    cash,            \* AvellanedaStoikov.cash
    timer,           \* AvellanedaStoikov.timer (seconds)
    in_stoploss,     \* AvellanedaStoikov.in_stoploss
    unrealized_pnl,  \* AvellanedaStoikov.unrealized_pnl
    sigma,           \* AvellanedaStoikov.sigma
    ak,              \* buy_a, buy_k, sell_a, sell_k
    rx,              \* the mpsc channel of FuturesWebsocketEvent
    pc,              \* where the consumer task is suspended
    cur,             \* the event whose handler runs (or ran last)
    units,           \* the tasks created by actix_rt::spawn, in spawn order
    issued,          \* exchange calls completed by the handler of cur
    branch,          \* which arm of on_tick / run_forever cur took
    now,             \* transaction time of the last event the feed produced
    fed,             \* number of events the feed produced
    handled,         \* arrival number of the last event the consumer received
    sl_time,         \* transaction time (ms) of the last stoploss trigger
    q_time,          \* transaction time (ms) of the last quote dispatch
    flattened,       \* quantity the stoploss market orders accepted since the
                     \* last account update sold and bought
    orders,          \* limit orders resting on the exchange for the pair
    seen             \* every BookTicker event pushed so far, in order

config_vars == <<config, start_time>>
engine_vars == <<strategy_data, position, cash, timer, in_stoploss,
                 unrealized_pnl, sigma, ak>>
feed_vars   == <<now, fed>>
vars == <<config, start_time, strategy_data, position, cash, timer,
          in_stoploss, unrealized_pnl, sigma, ak, rx, pc, cur, units,
          issued, branch, now, fed, handled, sl_time, q_time, flattened,
          orders, seen>>

(***************************************************************************)
(* Bounds of the model.                                                    *)
(***************************************************************************)
MaxEvents == 3
MaxQueue  == 2
MaxUnits  == 2
\* events of the longer, narrower sessions of SpecDeep
MaxDeepEvents == 4

(***************************************************************************)
(* Exact rational arithmetic standing for f64.                             *)
(***************************************************************************)
Abs(x) == IF x < 0 THEN -x ELSE x

RECURSIVE GCD(_, _)
GCD(a, b) == IF b = 0 THEN a ELSE GCD(b, a % b)

RNorm(n, d) ==
    LET g == GCD(Abs(n), Abs(d))
        s == IF d < 0 THEN -1 ELSE 1
    IN  <<(s * n) \div g, (s * d) \div g>>

RInt(i)    == <<i, 1>>
RZero      == RInt(0)
RAdd(a, b) ==
    LET l == (a[2] \div GCD(a[2], b[2])) * b[2]
    IN  RNorm(a[1] * (l \div a[2]) + b[1] * (l \div b[2]), l)
RNeg(a)    == <<-a[1], a[2]>>
RSub(a, b) == RAdd(a, RNeg(b))
RMul(a, b) == RNorm(a[1] * b[1], a[2] * b[2])
RDiv(a, b) == RNorm(a[1] * b[2], a[2] * b[1])
RAbs(a)    == <<Abs(a[1]), a[2]>>
RLess(a, b) == a[1] * b[2] < b[1] * a[2]

RECURSIVE RSum(_)
RSum(s) == IF s = <<>> THEN RZero ELSE RAdd(Head(s), RSum(Tail(s)))

(***************************************************************************)
(* StrategyData                                                            *)
(***************************************************************************)
with_capacity(capacity) ==
    [capacity  |-> capacity,
     timestamp |-> <<>>, ask_price |-> <<>>, ask_qty |-> <<>>,
     bid_price |-> <<>>, bid_qty   |-> <<>>, wap     |-> <<>>,
     imb       |-> <<>>, spread    |-> <<>>, tv      |-> <<>>]

\* Variants of evict with a slip: the size test off by one; pop_back for
\* pop_front.
evict_late(sd) ==
    IF Len(sd.timestamp) > sd.capacity
    THEN [sd EXCEPT !.timestamp = Tail(@), !.ask_price = Tail(@),
                    !.ask_qty   = Tail(@), !.bid_price = Tail(@),
                    !.bid_qty   = Tail(@), !.wap       = Tail(@),
                    !.imb       = Tail(@), !.spread    = Tail(@),
                    !.tv        = Tail(@)]
    ELSE sd

Front(s) == SubSeq(s, 1, Len(s) - 1)

evict_newest(sd) ==
    IF Len(sd.timestamp) > sd.capacity - 1
    THEN [sd EXCEPT !.timestamp = Front(@), !.ask_price = Front(@),
                    !.ask_qty   = Front(@), !.bid_price = Front(@),
                    !.bid_qty   = Front(@), !.wap       = Front(@),
                    !.imb       = Front(@), !.spread    = Front(@),
                    !.tv        = Front(@)]
    ELSE sd

\* VecDeque::pop_front on every series when the window is full.
evict(sd) ==
    IF Len(sd.timestamp) > sd.capacity - 1
    THEN [sd EXCEPT !.timestamp = Tail(@), !.ask_price = Tail(@),
                    !.ask_qty   = Tail(@), !.bid_price = Tail(@),
                    !.bid_qty   = Tail(@), !.wap       = Tail(@),
                    !.imb       = Tail(@), !.spread    = Tail(@),
                    !.tv        = Tail(@)]
    ELSE sd

event_wap(e) ==
    RDiv(RAdd(RMul(e.best_bid, e.best_ask_qty), RMul(e.best_ask, e.best_bid_qty)),
         RAdd(e.best_bid_qty, e.best_ask_qty))
event_imb(e)    == RDiv(e.best_bid_qty, RAdd(e.best_bid_qty, e.best_ask_qty))
event_spread(e) == RSub(e.best_ask, e.best_bid)

push(sd, e) ==
    LET s0     == evict(sd)
        wap    == event_wap(e)
        spread == event_spread(e)
        front  == Head(Append(s0.wap, wap))
        tv     == RAdd(RAbs(RSub(RDiv(wap, front), RInt(1))), RDiv(spread, wap))
    IN  [s0 EXCEPT !.timestamp = Append(@, e.transaction_time),
                   !.ask_price = Append(@, e.best_ask),
                   !.ask_qty   = Append(@, e.best_ask_qty),
                   !.bid_price = Append(@, e.best_bid),
                   !.bid_qty   = Append(@, e.best_bid_qty),
                   !.wap       = Append(@, wap),
                   !.imb       = Append(@, event_imb(e)),
                   !.spread    = Append(@, spread),
                   !.tv        = Append(@, tv)]

Back(s) == s[Len(s)]

calculate_tv_mean(sd) == RDiv(RSum(sd.tv), RInt(Len(sd.tv)))

(***************************************************************************)
(* The values the environment supplies: configuration, feed events, the    *)
(* intensity estimator's answers and the outcomes of exchange calls.       *)
(***************************************************************************)
Pct(n) == RNorm(n, 100)

Configs ==
    { [sigma_tick_period |-> c, period |-> 1000, stoploss_sleep |-> 1000,
       estimate_window |-> 0, stoploss |-> Pct(2), stopprofit |-> Pct(2),
       order_qty |-> RInt(5), sigma_multiplier |-> RInt(2)] : c \in {1, 2} }

StartTimes == {10996}

\* transaction time of the feed's clock when the engine starts
FirstTimes == {10996, 10997, 10998}

\* transaction times advance by one of these steps (ms)
Deltas == {1}

\* the set-ups explored: sigma_tick_period with the feed's clock at start
Setups == { <<2, 10996>>, <<1, 10997>>, <<2, 10998>> }

Quotes ==
    { [best_bid |-> RInt(96),  best_bid_qty |-> RInt(1),
       best_ask |-> RInt(98),  best_ask_qty |-> RInt(1)],
      [best_bid |-> RInt(100), best_bid_qty |-> RInt(1),
       best_ask |-> RInt(101), best_ask_qty |-> RInt(1)],
      [best_bid |-> RInt(103), best_bid_qty |-> RInt(1),
       best_ask |-> RInt(107), best_ask_qty |-> RInt(3)] }

BookTicker(t, q) ==
    [kind |-> "BookTicker", transaction_time |-> t,
     best_bid |-> q.best_bid, best_bid_qty |-> q.best_bid_qty,
     best_ask |-> q.best_ask, best_ask_qty |-> q.best_ask_qty]

pair == "BTCUSDT"

PositionEntry(sym, side, amt, entry) ==
    [symbol |-> sym, position_side |-> side,
     position_amount |-> RInt(amt), entry_price |-> RInt(entry)]

Balance(asset, c) == [asset |-> asset, cross_wallet_balance |-> RInt(c)]

AccountUpdate(b, p) == [kind |-> "AccountUpdate", balances |-> b, positions |-> p]

AccountUpdates ==
    { AccountUpdate(<<Balance(pair, 50)>>, <<PositionEntry(pair, "BOTH", 5, 100)>>),
      AccountUpdate(<<Balance("USDT", 70)>>,
                    <<PositionEntry("ETHUSDT", "BOTH", 3, 50),
                      PositionEntry(pair, "BOTH", -5, 100),
                      PositionEntry(pair, "BOTH", 5, 100)>>),
      AccountUpdate(<<>>, <<PositionEntry(pair, "BOTH", 0, 0)>>),
      AccountUpdate(<<>>, <<PositionEntry(pair, "LONG", 7, 90),
                            PositionEntry("ETHUSDT", "BOTH", 3, 50)>>) }

OtherEvents == { [kind |-> "OrderTradeUpdate"] }

NoEvent == [kind |-> "None"]

\* IntensityEstimator::estimate(ts).get_ak()
Estimates ==
    { [buy_a |-> RNorm(5, 10), buy_k |-> RNorm(3, 10),
       sell_a |-> RZero, sell_k |-> RNorm(1, 10)] }

\* get_ak() is four f64 with no range stated: a fit over few or noisy fills
\* can also come out with a zero or negative rate.
RawEstimates ==
    Estimates \cup
    { [buy_a |-> RNorm(5, 10), buy_k |-> RNorm(-1, 20),
       sell_a |-> RNorm(4, 10), sell_k |-> RNorm(-1, 10000000)] }

None == [none |-> TRUE]

(***************************************************************************)
(* AvellanedaStoikov::new                                                  *)
(***************************************************************************)
Init ==
    /\ config \in Configs
    /\ start_time \in StartTimes
    /\ strategy_data = with_capacity(config.sigma_tick_period)
    /\ position = [position_amount |-> RZero, entry_price |-> RZero]
    /\ cash = RZero
    /\ timer = 0
    /\ in_stoploss = FALSE
    /\ unrealized_pnl = RZero
    /\ sigma = RInt(1)
    /\ ak = [buy_a |-> RNorm(4, 10), buy_k |-> RNorm(2, 10),
             sell_a |-> RNorm(4, 10), sell_k |-> RNorm(2, 10)]
    /\ rx = <<>>
    /\ pc = "recv"
    /\ cur = NoEvent
    /\ units = <<>>
    /\ issued = <<>>
    /\ branch = "none"
    /\ now \in FirstTimes
    /\ <<config.sigma_tick_period, now>> \in Setups
    /\ fed = 0
    /\ handled = 0
    /\ sl_time = 0
    /\ q_time = 0
    /\ flattened = [market_sell |-> RZero, market_buy |-> RZero]
    /\ orders = <<>>
    /\ seen = <<>>

(***************************************************************************)
(* The websocket feed: the producer side of the channel.                   *)
(***************************************************************************)
FeedTick(d, q) ==
    /\ fed < MaxEvents
    /\ Len(rx) < MaxQueue
    /\ rx' = Append(rx, [seq |-> fed + 1, event |-> BookTicker(now + d, q)])
    /\ now' = now + d
    /\ fed' = fed + 1
    /\ UNCHANGED <<config_vars, engine_vars, pc, cur, units, issued, branch,
                   handled, sl_time, q_time, flattened, orders, seen>>

FeedOther(e) ==
    /\ fed < MaxEvents
    /\ Len(rx) < MaxQueue
    /\ rx' = Append(rx, [seq |-> fed + 1, event |-> e])
    /\ fed' = fed + 1
    /\ UNCHANGED <<config_vars, engine_vars, pc, cur, units, issued, branch,
                   now, handled, sl_time, q_time, flattened, orders, seen>>

\* The feed of a longer session: one more event, one start time, ticks that
\* move the wap 3% below or 4% above 100, and account updates that open a long
\* position or report it flat.
DeepQuotes == {q \in Quotes : q.best_bid # RInt(100)}

DeepUpdates ==
    { AccountUpdate(<<Balance(pair, 50)>>, <<PositionEntry(pair, "BOTH", 5, 100)>>),
      AccountUpdate(<<>>, <<PositionEntry(pair, "BOTH", 0, 0)>>) }

FeedTickDeep(d, q) ==
    /\ fed < MaxDeepEvents
    /\ Len(rx) < MaxQueue
    /\ rx' = Append(rx, [seq |-> fed + 1, event |-> BookTicker(now + d, q)])
    /\ now' = now + d
    /\ fed' = fed + 1
    /\ UNCHANGED <<config_vars, engine_vars, pc, cur, units, issued, branch,
                   handled, sl_time, q_time, flattened, orders, seen>>

FeedAccountDeep(e) ==
    /\ fed < MaxDeepEvents
    /\ Len(rx) < MaxQueue
    /\ rx' = Append(rx, [seq |-> fed + 1, event |-> e])
    /\ fed' = fed + 1
    /\ UNCHANGED <<config_vars, engine_vars, pc, cur, units, issued, branch,
                   now, handled, sl_time, q_time, flattened, orders, seen>>

(***************************************************************************)
(* run_forever: the consumer takes the next event of the channel only when *)
(* the handler of the previous one has returned (pc = "recv").             *)
(***************************************************************************)
\* Variant of Receive for a loop that does not await the handler: the next
\* event is taken wherever the previous handler is suspended.
Receive_unawaited(e) ==
    /\ rx # <<>>
    /\ e = Head(rx).event
    /\ rx' = Tail(rx)
    /\ cur' = e
    /\ handled' = Head(rx).seq
    /\ issued' = <<>>

recv(q) == Head(q)

Receive(e) ==
    /\ pc = "recv"
    /\ rx # <<>>
    /\ e = recv(rx).event
    /\ rx' = Tail(rx)
    /\ cur' = e
    /\ handled' = recv(rx).seq
    /\ issued' = <<>>

(***************************************************************************)
(* on_tick, up to its first await                                          *)
(***************************************************************************)
seconds(t) == t \div 1000

\* self.timer <= data.transaction_time / 1e3 as u64 - (dur / 1000)
elapsed(tm, tt, dur) == tm <= seconds(tt) - (dur \div 1000)

\* Variant of calculate_intensity_info without the estimate-window test.
calculate_intensity_info_unwindowed(can_get, est, ts) ==
    IF can_get THEN est ELSE None

calculate_intensity_info(can_get, est, ts) ==
    IF can_get /\ ts > start_time + config.estimate_window + 1 THEN est ELSE None

epsilon == RNorm(1, 10000000)

clamped(ii) ==
    [buy_a  |-> RAdd(ii.buy_a, epsilon),  buy_k  |-> RAdd(ii.buy_k, epsilon),
     sell_a |-> RAdd(ii.sell_a, epsilon), sell_k |-> RAdd(ii.sell_k, epsilon)]

\* The Spread of calculate_spread, kept as the arguments its closed form is
\* evaluated at.
calculate_spread(sd, pos, a) ==
    [sigma_fix |-> RMul(calculate_tv_mean(sd), config.sigma_multiplier),
     q_fix     |-> RDiv(pos.position_amount, config.order_qty),
     buy_a |-> a.buy_a, buy_k |-> a.buy_k, sell_a |-> a.sell_a, sell_k |-> a.sell_k]

\* self.gamma
gamma == RNorm(1, 10)

RSign(a) == IF a[1] > 0 THEN 1 ELSE IF a[1] < 0 THEN -1 ELSE 0

\* What the factor
\*   sqrt(sigma_fix^2 * gamma / (2 k a) * (1 + gamma/k)^(1 + k/gamma))
\* of an inventory term evaluates to in f64, up to its magnitude: a positive
\* number, zero, or no number to order by (a division by zero, a negative
\* base under powf with a fractional exponent, a negative radicand).  With
\* base = (k + gamma) / k >= 0 the power is positive, so the radicand has the
\* sign of sigma_fix^2 / (k a).
inventory_scale(sigma_fix, k, a) ==
    IF RSign(k) = 0 \/ RSign(a) = 0 THEN "undefined"
    ELSE IF RSign(RAdd(k, gamma)) * RSign(k) < 0 THEN "undefined"
    ELSE IF RSign(sigma_fix) = 0 THEN "zero"
    ELSE IF RSign(k) * RSign(a) < 0 THEN "undefined"
    ELSE "positive"

\* (q_fix + 0.5) * sqrt(...) of the bid offset
bid_inventory_term(q_fix, sigma_fix, a) ==
    [factor |-> RAdd(q_fix, RNorm(1, 2)),
     scale  |-> inventory_scale(sigma_fix, a.sell_k, a.sell_a)]

\* - (q_fix - 0.5) * sqrt(...) of the ask offset
ask_inventory_term(q_fix, sigma_fix, a) ==
    [factor |-> RNeg(RSub(q_fix, RNorm(1, 2))),
     scale  |-> inventory_scale(sigma_fix, a.buy_k, a.buy_a)]

\* x < y for two terms factor * scale with the same scale
TermLess(x, y) ==
    /\ x.scale = "positive" /\ y.scale = "positive"
    /\ RLess(x.factor, y.factor)

IsLong(pos)  == RLess(RZero, pos.position_amount)
IsShort(pos) == RLess(pos.position_amount, RZero)

pnl_update(pos, wap, old) ==
    LET ratio == RDiv(RMul(wap, pos.position_amount),
                      RMul(pos.entry_price, pos.position_amount))
    IN  IF IsLong(pos) THEN RSub(ratio, RInt(1))
        ELSE IF IsShort(pos) THEN RNeg(RSub(ratio, RInt(1)))
        ELSE old

stoploss_hit(pnl)   == RLess(pnl, RNeg(config.stoploss))
stopprofit_hit(pnl) == RLess(config.stopprofit, pnl)

\* the arm of on_tick the event takes
arm(e, ii) ==
    LET sd  == push(strategy_data, e)
        pnl == pnl_update(position, Back(sd.wap), unrealized_pnl)
        tt  == e.transaction_time
    IN  IF ii = None THEN "not_ready"
        ELSE IF ~in_stoploss
        THEN IF stoploss_hit(pnl) THEN "stoploss"
             ELSE IF stopprofit_hit(pnl) /\ elapsed(timer, tt, config.period)
                  THEN "stopprofit"
             ELSE IF elapsed(timer, tt, config.period) THEN "quote"
             ELSE "idle"
        ELSE IF elapsed(timer, tt, config.stoploss_sleep) THEN "wake"
        ELSE "cooldown"

\* what every ready tick does before the in_stoploss test
Ready(e, ii, a) ==
    /\ Receive(e)
    /\ e.kind = "BookTicker"
    /\ ii # None
    /\ arm(e, ii) = a
    /\ branch' = a
    /\ strategy_data' = push(strategy_data, e)
    /\ seen' = Append(seen, e)
    /\ ak' = clamped(ii)
    /\ sigma' = calculate_tv_mean(strategy_data')

Quoting(e) ==
    unrealized_pnl' = pnl_update(position, Back(strategy_data'.wap), unrealized_pnl)

TickNotReady(e, can_get, est) ==
    /\ Receive(e)
    /\ e.kind = "BookTicker"
    /\ calculate_intensity_info(can_get, est, e.transaction_time) = None
    /\ branch' = "not_ready"
    /\ strategy_data' = push(strategy_data, e)
    /\ seen' = Append(seen, e)
    /\ UNCHANGED <<config_vars, position, cash, timer, in_stoploss,
                   unrealized_pnl, sigma, ak, pc, units, feed_vars, sl_time,
                   q_time, flattened, orders>>

TickStoploss(e, can_get, est) ==
    /\ Ready(e, calculate_intensity_info(can_get, est, e.transaction_time), "stoploss")
    /\ Quoting(e)
    /\ pc' = "sl_cancel"
    /\ UNCHANGED <<config_vars, position, cash, timer, in_stoploss, units,
                   feed_vars, sl_time, q_time, flattened, orders>>

\* Variant of TickStopProfit that hands its calls to a detached task and
\* returns at once.
TickStopProfit_detached(e, can_get, est) ==
    /\ Ready(e, calculate_intensity_info(can_get, est, e.transaction_time), "stopprofit")
    /\ Quoting(e)
    /\ pc' = "recv"
    /\ UNCHANGED <<config_vars, position, cash, timer, in_stoploss, units,
                   feed_vars, sl_time, q_time, flattened, orders>>

TickStopProfit(e, can_get, est) ==
    /\ Ready(e, calculate_intensity_info(can_get, est, e.transaction_time), "stopprofit")
    /\ Quoting(e)
    /\ pc' = "sp_cancel"
    /\ UNCHANGED <<config_vars, position, cash, timer, in_stoploss, units,
                   feed_vars, sl_time, q_time, flattened, orders>>

\* the snapshot moved into the spawned task
Unit(sd, spread) ==
    [pc |-> "cancel", pair |-> pair, last_wap |-> Back(sd.wap), spread |-> spread,
     order_qty |-> config.order_qty]

TickQuote(e, can_get, est) ==
    /\ Len(units) < MaxUnits
    /\ Ready(e, calculate_intensity_info(can_get, est, e.transaction_time), "quote")
    /\ Quoting(e)
    /\ units' = Append(units, Unit(strategy_data',
                                   calculate_spread(strategy_data', position, ak')))
    /\ timer' = seconds(e.transaction_time)
    /\ q_time' = e.transaction_time
    /\ UNCHANGED <<config_vars, position, cash, in_stoploss, pc, feed_vars, sl_time,
                   flattened, orders>>

TickIdle(e, can_get, est) ==
    /\ Ready(e, calculate_intensity_info(can_get, est, e.transaction_time), "idle")
    /\ Quoting(e)
    /\ UNCHANGED <<config_vars, position, cash, timer, in_stoploss, pc, units,
                   feed_vars, sl_time, q_time, flattened, orders>>

\* Variant of TickWake that restarts the quote period as it leaves cooldown.
TickWake_stamps(e, can_get, est) ==
    /\ Ready(e, calculate_intensity_info(can_get, est, e.transaction_time), "wake")
    /\ in_stoploss' = FALSE
    /\ timer' = seconds(e.transaction_time)
    /\ UNCHANGED <<config_vars, position, cash, unrealized_pnl, pc, units,
                   feed_vars, sl_time, q_time, flattened, orders>>

TickWake(e, can_get, est) ==
    /\ Ready(e, calculate_intensity_info(can_get, est, e.transaction_time), "wake")
    /\ in_stoploss' = FALSE
    /\ UNCHANGED <<config_vars, position, cash, timer, unrealized_pnl, pc, units,
                   feed_vars, sl_time, q_time, flattened, orders>>

TickCooldown(e, can_get, est) ==
    /\ Ready(e, calculate_intensity_info(can_get, est, e.transaction_time), "cooldown")
    /\ UNCHANGED <<config_vars, position, cash, timer, in_stoploss, unrealized_pnl,
                   pc, units, feed_vars, sl_time, q_time, flattened, orders>>

(***************************************************************************)
(* on_tick after an await: the exchange call returns Ok or Err, the result *)
(* is logged and the handler goes on.                                      *)
(***************************************************************************)
Call(op, qty, price, ok) == [op |-> op, qty |-> qty, price |-> price, ok |-> ok]

\* The exchange after a call: a call that returned Err changed nothing,
\* cancel-all removes every resting order of the pair, a limit order comes to
\* rest, a market order does not rest.
exchange(os, call) ==
    IF ~call.ok THEN os
    ELSE IF call.op = "cancel_all_open_orders" THEN <<>>
    ELSE IF call.op \in {"limit_buy", "limit_sell"}
         THEN Append(os, [op |-> call.op, qty |-> call.qty])
    ELSE os

\* Variant of proceed that gives up the handler when the call failed.
proceed_abort(ok, next) == IF ok THEN next ELSE "recv"

\* match ... { Ok(answer) => info!(..), Err(err) => warn!(..) }
proceed(ok, next) == next

\* quantity sold and bought by the market orders the exchange accepted
flatten_total(fl, call) ==
    IF call.ok /\ call.op \in {"market_sell", "market_buy"}
    THEN [fl EXCEPT ![call.op] = RAdd(@, call.qty)]
    ELSE fl

\* Variant of flatten_market that sells whatever the sign of the position.
flatten_market_sell(pos) == [op |-> "market_sell", qty |-> pos.position_amount]

\* the market order of the stoploss arm
flatten_market(pos) ==
    IF IsLong(pos) THEN [op |-> "market_sell", qty |-> pos.position_amount]
    ELSE [op |-> "market_buy", qty |-> RAbs(pos.position_amount)]

StoplossCancel(ok) ==
    /\ pc = "sl_cancel"
    /\ issued' = Append(issued, Call("cancel_all_open_orders", RZero, RZero, ok))
    /\ orders' = exchange(orders, issued'[Len(issued')])
    /\ pc' = proceed(ok, "sl_market")
    /\ UNCHANGED <<config_vars, engine_vars, rx, cur, units, branch, feed_vars,
                   handled, sl_time, q_time, flattened, seen>>

\* Variant of StoplossMarket that also books the flatten locally.
StoplossMarket_flat(ok) ==
    /\ pc = "sl_market"
    /\ LET o == flatten_market(position)
       IN  issued' = Append(issued, Call(o.op, o.qty, RZero, ok))
    /\ unrealized_pnl' = RZero
    /\ in_stoploss' = TRUE
    /\ timer' = seconds(cur.transaction_time)
    /\ sl_time' = cur.transaction_time
    /\ position' = [position EXCEPT !.position_amount = RZero]
    /\ orders' = exchange(orders, issued'[Len(issued')])
    /\ flattened' = flatten_total(flattened, issued'[Len(issued')])
    /\ pc' = proceed(ok, "recv")
    /\ UNCHANGED <<config_vars, strategy_data, cash, sigma, ak, rx, cur,
                   units, branch, feed_vars, handled, q_time, seen>>

\* Variant of StoplossMarket that leaves unrealized_pnl as the trigger found it.
StoplossMarket_keeps_pnl(ok) ==
    /\ pc = "sl_market"
    /\ LET o == flatten_market(position)
       IN  issued' = Append(issued, Call(o.op, o.qty, RZero, ok))
    /\ in_stoploss' = TRUE
    /\ timer' = seconds(cur.transaction_time)
    /\ sl_time' = cur.transaction_time
    /\ orders' = exchange(orders, issued'[Len(issued')])
    /\ flattened' = flatten_total(flattened, issued'[Len(issued')])
    /\ pc' = proceed(ok, "recv")
    /\ UNCHANGED <<config_vars, strategy_data, position, cash, unrealized_pnl,
                   sigma, ak, rx, cur, units, branch, feed_vars, handled,
                   q_time, seen>>

StoplossMarket(ok) ==
    /\ pc = "sl_market"
    /\ LET o == flatten_market(position)
       IN  issued' = Append(issued, Call(o.op, o.qty, RZero, ok))
    /\ unrealized_pnl' = RZero
    /\ in_stoploss' = TRUE
    /\ timer' = seconds(cur.transaction_time)
    /\ sl_time' = cur.transaction_time
    /\ orders' = exchange(orders, issued'[Len(issued')])
    /\ flattened' = flatten_total(flattened, issued'[Len(issued')])
    /\ pc' = proceed(ok, "recv")
    /\ UNCHANGED <<config_vars, strategy_data, position, cash, sigma, ak, rx, cur,
                   units, branch, feed_vars, handled, q_time, seen>>

StopProfitCancel(ok) ==
    /\ pc = "sp_cancel"
    /\ issued' = Append(issued, Call("cancel_all_open_orders", RZero, RZero, ok))
    /\ orders' = exchange(orders, issued'[Len(issued')])
    /\ pc' = proceed(ok, IF IsLong(position) \/ IsShort(position)
                         THEN "sp_limit" ELSE "recv")
    /\ UNCHANGED <<config_vars, engine_vars, rx, cur, units, branch, feed_vars,
                   handled, sl_time, q_time, flattened, seen>>

\* the limit order of the stop-profit arm
flatten_limit(pos, sd) ==
    IF IsLong(pos)
    THEN [op |-> "limit_sell", qty |-> pos.position_amount, price |-> Back(sd.ask_price)]
    ELSE [op |-> "limit_buy", qty |-> RAbs(pos.position_amount),
          price |-> Back(sd.bid_price)]

StopProfitLimit(ok) ==
    /\ pc = "sp_limit"
    /\ LET o == flatten_limit(position, strategy_data)
       IN  issued' = Append(issued, Call(o.op, o.qty, o.price, ok))
    /\ orders' = exchange(orders, issued'[Len(issued')])
    /\ pc' = proceed(ok, "recv")
    /\ UNCHANGED <<config_vars, engine_vars, rx, cur, units, branch, feed_vars,
                   handled, sl_time, q_time, flattened, seen>>

(***************************************************************************)
(* The task spawned by the quote arm: cancel, limit_buy, limit_sell.       *)
(***************************************************************************)
unit_next(p) ==
    CASE p = "cancel"     -> "limit_buy"
      [] p = "limit_buy"  -> "limit_sell"
      [] OTHER            -> "done"

Remove(s, i) == SubSeq(s, 1, i - 1) \o SubSeq(s, i + 1, Len(s))

\* the call a task makes at its position; the prices are
\* round_to(last_wap - spread.bid, tick) and round_to(last_wap + spread.ask, tick)
unit_call(u, ok) ==
    IF u.pc = "cancel" THEN Call("cancel_all_open_orders", RZero, RZero, ok)
    ELSE Call(u.pc, u.order_qty, [last_wap |-> u.last_wap, spread |-> u.spread], ok)

\* Variant of UnitStep in which the task resets unrealized_pnl as it goes.
UnitStep_writes(i, ok) ==
    /\ i \in 1..Len(units)
    /\ LET u == units[i]
           n == proceed(ok, unit_next(u.pc))
       IN  units' = IF n = "done" THEN Remove(units, i)
                    ELSE [units EXCEPT ![i].pc = n]
    /\ orders' = exchange(orders, unit_call(units[i], ok))
    /\ unrealized_pnl' = RZero
    /\ UNCHANGED <<config_vars, strategy_data, position, cash, timer, in_stoploss,
                   sigma, ak, rx, pc, cur, issued, branch, feed_vars, handled,
                   sl_time, q_time, flattened, seen>>

\* Variant of UnitStep for tasks that run one at a time, in spawn order.
UnitStep_serial(i, ok) ==
    /\ i = 1
    /\ i \in 1..Len(units)
    /\ LET u == units[i]
           n == proceed(ok, unit_next(u.pc))
       IN  units' = IF n = "done" THEN Remove(units, i)
                    ELSE [units EXCEPT ![i].pc = n]
    /\ orders' = exchange(orders, unit_call(units[i], ok))
    /\ UNCHANGED <<config_vars, engine_vars, rx, pc, cur, issued, branch,
                   feed_vars, handled, sl_time, q_time, flattened, seen>>

UnitStep(i, ok) ==
    /\ i \in 1..Len(units)
    /\ LET u == units[i]
           n == proceed(ok, unit_next(u.pc))
       IN  units' = IF n = "done" THEN Remove(units, i)
                    ELSE [units EXCEPT ![i].pc = n]
    /\ orders' = exchange(orders, unit_call(units[i], ok))
    /\ UNCHANGED <<config_vars, engine_vars, rx, pc, cur, issued, branch,
                   feed_vars, handled, sl_time, q_time, flattened, seen>>

(***************************************************************************)
(* on_account                                                              *)
(***************************************************************************)
RECURSIVE balance_cash(_, _)
balance_cash(bs, c) ==
    IF bs = <<>> THEN c
    ELSE balance_cash(Tail(bs), IF Head(bs).asset = pair
                                THEN Head(bs).cross_wallet_balance ELSE c)

\* Variant of matches that ignores the position side.
matches_symbol(x) == x.symbol = pair

matches(x) == x.symbol = pair /\ x.position_side = "BOTH"

RECURSIVE find(_)
find(ps) ==
    IF ps = <<>> THEN None
    ELSE IF matches(Head(ps)) THEN Head(ps) ELSE find(Tail(ps))

on_account_position(ps, pos) ==
    LET f == find(ps)
    IN  [position_amount |-> IF f = None THEN pos.position_amount
                             ELSE f.position_amount,
         entry_price     |-> IF f = None THEN pos.entry_price ELSE f.entry_price]

OnAccount(e) ==
    /\ Receive(e)
    /\ e.kind = "AccountUpdate"
    /\ branch' = "account"
    /\ cash' = balance_cash(e.balances, cash)
    /\ position' = on_account_position(e.positions, position)
    /\ flattened' = [market_sell |-> RZero, market_buy |-> RZero]
    /\ UNCHANGED <<config_vars, strategy_data, timer, in_stoploss, unrealized_pnl,
                   sigma, ak, pc, units, feed_vars, sl_time, q_time,
                   orders, seen>>

\* OrderTradeUpdate, AccountConfigUpdate and unparsed events are logged
OnOther(e) ==
    /\ Receive(e)
    /\ e.kind \notin {"BookTicker", "AccountUpdate"}
    /\ branch' = "other"
    /\ UNCHANGED <<config_vars, engine_vars, pc, units, feed_vars, sl_time,
                   q_time, flattened, orders, seen>>

(***************************************************************************)
(* The system                                                              *)
(***************************************************************************)
Next ==
    \/ \E d \in Deltas, q \in Quotes : FeedTick(d, q)
    \/ \E e \in AccountUpdates \cup OtherEvents : FeedOther(e)
    \/ \E c \in BOOLEAN, est \in Estimates :
          rx # <<>> /\ TickNotReady(recv(rx).event, c, est)
    \/ \E c \in BOOLEAN, est \in Estimates :
          rx # <<>> /\ TickStoploss(recv(rx).event, c, est)
    \/ \E c \in BOOLEAN, est \in Estimates :
          rx # <<>> /\ TickStopProfit(recv(rx).event, c, est)
    \/ \E c \in BOOLEAN, est \in Estimates :
          rx # <<>> /\ TickQuote(recv(rx).event, c, est)
    \/ \E c \in BOOLEAN, est \in Estimates :
          rx # <<>> /\ TickIdle(recv(rx).event, c, est)
    \/ \E c \in BOOLEAN, est \in Estimates :
          rx # <<>> /\ TickWake(recv(rx).event, c, est)
    \/ \E c \in BOOLEAN, est \in Estimates :
          rx # <<>> /\ TickCooldown(recv(rx).event, c, est)
    \/ \E ok \in BOOLEAN : StoplossCancel(ok)
    \/ \E ok \in BOOLEAN : StoplossMarket(ok)
    \/ \E ok \in BOOLEAN : StopProfitCancel(ok)
    \/ \E ok \in BOOLEAN : StopProfitLimit(ok)
    \/ \E i \in 1..MaxUnits, ok \in BOOLEAN : UnitStep(i, ok)
    \/ rx # <<>> /\ OnAccount(recv(rx).event)
    \/ rx # <<>> /\ OnOther(recv(rx).event)

Spec == Init /\ [][Next]_vars

\* The same engine fed by a calibrator whose estimates are not confined to
\* positive rates.
NextRaw ==
    \/ \E d \in Deltas, q \in Quotes : FeedTick(d, q)
    \/ \E e \in AccountUpdates \cup OtherEvents : FeedOther(e)
    \/ \E c \in BOOLEAN, est \in RawEstimates :
          rx # <<>> /\ TickNotReady(recv(rx).event, c, est)
    \/ \E c \in BOOLEAN, est \in RawEstimates :
          rx # <<>> /\ TickStoploss(recv(rx).event, c, est)
    \/ \E c \in BOOLEAN, est \in RawEstimates :
          rx # <<>> /\ TickStopProfit(recv(rx).event, c, est)
    \/ \E c \in BOOLEAN, est \in RawEstimates :
          rx # <<>> /\ TickQuote(recv(rx).event, c, est)
    \/ \E c \in BOOLEAN, est \in RawEstimates :
          rx # <<>> /\ TickIdle(recv(rx).event, c, est)
    \/ \E c \in BOOLEAN, est \in RawEstimates :
          rx # <<>> /\ TickWake(recv(rx).event, c, est)
    \/ \E c \in BOOLEAN, est \in RawEstimates :
          rx # <<>> /\ TickCooldown(recv(rx).event, c, est)
    \/ \E ok \in BOOLEAN : StoplossCancel(ok)
    \/ \E ok \in BOOLEAN : StoplossMarket(ok)
    \/ \E ok \in BOOLEAN : StopProfitCancel(ok)
    \/ \E ok \in BOOLEAN : StopProfitLimit(ok)
    \/ \E i \in 1..MaxUnits, ok \in BOOLEAN : UnitStep(i, ok)
    \/ rx # <<>> /\ OnAccount(recv(rx).event)
    \/ rx # <<>> /\ OnOther(recv(rx).event)

SpecRaw == Init /\ [][NextRaw]_vars

\* Longer sessions: MaxDeepEvents events of a narrower feed.
InitDeep ==
    /\ Init
    /\ config.sigma_tick_period = 2
    /\ now = 10998

NextDeep ==
    \/ \E d \in Deltas, q \in DeepQuotes : FeedTickDeep(d, q)
    \/ \E e \in DeepUpdates : FeedAccountDeep(e)
    \/ \E c \in BOOLEAN, est \in Estimates :
          rx # <<>> /\ TickNotReady(recv(rx).event, c, est)
    \/ \E c \in BOOLEAN, est \in Estimates :
          rx # <<>> /\ TickStoploss(recv(rx).event, c, est)
    \/ \E c \in BOOLEAN, est \in Estimates :
          rx # <<>> /\ TickStopProfit(recv(rx).event, c, est)
    \/ \E c \in BOOLEAN, est \in Estimates :
          rx # <<>> /\ TickQuote(recv(rx).event, c, est)
    \/ \E c \in BOOLEAN, est \in Estimates :
          rx # <<>> /\ TickIdle(recv(rx).event, c, est)
    \/ \E c \in BOOLEAN, est \in Estimates :
          rx # <<>> /\ TickWake(recv(rx).event, c, est)
    \/ \E c \in BOOLEAN, est \in Estimates :
          rx # <<>> /\ TickCooldown(recv(rx).event, c, est)
    \/ \E ok \in BOOLEAN : StoplossCancel(ok)
    \/ \E ok \in BOOLEAN : StoplossMarket(ok)
    \/ \E ok \in BOOLEAN : StopProfitCancel(ok)
    \/ \E ok \in BOOLEAN : StopProfitLimit(ok)
    \/ \E i \in 1..MaxUnits, ok \in BOOLEAN : UnitStep(i, ok)
    \/ rx # <<>> /\ OnAccount(recv(rx).event)

SpecDeep == InitDeep /\ [][NextDeep]_vars

(***************************************************************************)
(* Properties                                                              *)
(***************************************************************************)
Ops(calls) == [i \in 1..Len(calls) |-> <<calls[i].op, calls[i].qty>>]

Min(a, b) == IF a < b THEN a ELSE b

\* C1: a ready tick handled in QUOTING whose fresh unrealized_pnl is below
\* -stoploss takes the stoploss arm (no other arm is taken with such a pnl);
\* the arm awaits cancel-all, then exactly one market order, market_sell of
\* position_amount when long and market_buy of |position_amount| when short;
\* when it returns in_stoploss is true, unrealized_pnl is 0 and timer is the
\* tick's transaction time in whole seconds.
C1_StoplossFlattens ==
    /\ branch \in {"stopprofit", "quote", "idle"}
          => ~RLess(unrealized_pnl, RNeg(config.stoploss))
    /\ (branch = "stoploss" /\ pc = "sl_cancel")
          => /\ RLess(unrealized_pnl, RNeg(config.stoploss))
             /\ issued = <<>>
    /\ (branch = "stoploss" /\ pc = "sl_market")
          => Ops(issued) = << <<"cancel_all_open_orders", RZero>> >>
    /\ (branch = "stoploss" /\ pc = "recv")
          => /\ Len(issued) = 2
             /\ Ops(issued)[1] = <<"cancel_all_open_orders", RZero>>
             /\ RLess(RZero, position.position_amount)
                   => Ops(issued)[2] = <<"market_sell", position.position_amount>>
             /\ RLess(position.position_amount, RZero)
                   => Ops(issued)[2] = <<"market_buy", RNeg(position.position_amount)>>
             /\ in_stoploss
             /\ unrealized_pnl = RZero
             /\ timer = cur.transaction_time \div 1000
    /\ pc \in {"sl_cancel", "sl_market"} => branch = "stoploss"

\* C1 witness: the long position of 5 entered at 100 is flattened at wap 97 by
\* a market sell of 5, and a short one by a market buy.
C1_Witness ==
    /\ branch = "stoploss" /\ pc = "recv" /\ in_stoploss
    /\ position = [position_amount |-> RInt(5), entry_price |-> RInt(100)]
    /\ Back(strategy_data.wap) = RInt(97)
    /\ Ops(issued)[2] = <<"market_sell", RInt(5)>>

\* C2: whenever a tick sets in_stoploss back to false, at least stoploss_sleep
\* milliseconds lie between the transaction time of the stoploss trigger and
\* the transaction time of that tick.
C2_CooldownLastsSleep ==
    [][(in_stoploss /\ ~in_stoploss')
          => cur'.transaction_time - sl_time >= config.stoploss_sleep]_vars

\* C3: after n pushes the window holds min(n, capacity) elements and the
\* nine series have that same length.
C3_WindowSize ==
    LET sd == strategy_data
        k  == Min(Len(seen), sd.capacity)
    IN  /\ Len(sd.timestamp) = k /\ Len(sd.ask_price) = k /\ Len(sd.ask_qty) = k
        /\ Len(sd.bid_price) = k /\ Len(sd.bid_qty) = k   /\ Len(sd.wap) = k
        /\ Len(sd.imb) = k       /\ Len(sd.spread) = k    /\ Len(sd.tv) = k

\* C3 witness: more ticks were pushed than the window holds.
C3_Witness ==
    /\ Len(seen) > strategy_data.capacity
    /\ Len(strategy_data.tv) = strategy_data.capacity

\* C4: the window holds the last min(n, capacity) pushed observations in
\* arrival order, and at every index the nine series hold the values of that
\* one observation (tv taken against the oldest wap resident when it came).
C4_FifoLockStep ==
    LET sd == strategy_data
        n  == Len(seen)
        k  == Min(n, sd.capacity)
    IN  /\ \A f \in {"timestamp", "ask_price", "ask_qty", "bid_price", "bid_qty",
                     "wap", "imb", "spread", "tv"} : Len(sd[f]) = k
        /\ \A i \in 1..k :
              LET j == n - k + i
                  o == seen[j]
                  w == event_wap(o)
                  first == event_wap(seen[IF j - sd.capacity + 1 > 1
                                          THEN j - sd.capacity + 1 ELSE 1])
              IN  /\ sd.timestamp[i] = o.transaction_time
                  /\ sd.ask_price[i] = o.best_ask
                  /\ sd.ask_qty[i]   = o.best_ask_qty
                  /\ sd.bid_price[i] = o.best_bid
                  /\ sd.bid_qty[i]   = o.best_bid_qty
                  /\ sd.wap[i]       = w
                  /\ sd.imb[i]       = RDiv(o.best_bid_qty,
                                            RAdd(o.best_bid_qty, o.best_ask_qty))
                  /\ sd.spread[i]    = RSub(o.best_ask, o.best_bid)
                  /\ sd.tv[i] = RAdd(RAbs(RSub(RDiv(w, first), RInt(1))),
                                     RDiv(RSub(o.best_ask, o.best_bid), w))

\* C4 witness: the oldest of three observations has left a window of two
\* that holds two different observations.
C4_Witness ==
    /\ strategy_data.capacity = 2
    /\ Len(seen) = 3
    /\ strategy_data.timestamp = <<seen[2].transaction_time, seen[3].transaction_time>>
    /\ strategy_data.ask_qty[1] # strategy_data.ask_qty[2]
    /\ seen[1].best_ask # seen[2].best_ask

\* C5: events are received in arrival order, one at a time, and only when
\* the handler of the previous event has returned: no event is received while
\* the consumer is suspended in the stoploss (or any other awaited) sequence.
C5_InOrder ==
    [][handled' # handled
          => /\ pc = "recv"
             /\ handled' = handled + 1
             /\ rx # <<>> /\ cur' = Head(rx).event /\ rx' = Tail(rx)]_vars

\* C5 witness: a later tick waits in the channel while the stoploss market
\* order is awaited.
C5_Witness ==
    /\ pc = "sl_market"
    /\ rx # <<>>
    /\ Head(rx).event.kind = "BookTicker"
    /\ Head(rx).seq = handled + 1

\* C6 as stated: the stop-profit arm leaves the consumer free to receive the
\* next event, its calls being made by a detached unit.
C6_StopProfitDetached == branch = "stopprofit" => pc = "recv"

\* C6 amended: the stop-profit arm is awaited inside on_tick like the
\* stoploss sequence: it spawns no unit, and no event is received while its
\* cancel-all or its limit order is outstanding; only the quote arm spawns a
\* unit and returns at once.
C6_StopProfitAwaited ==
    [][/\ pc \in {"sp_cancel", "sp_limit"} => (handled' = handled /\ cur' = cur)
       /\ (handled' # handled /\ branch' = "stopprofit")
             => (pc' = "sp_cancel" /\ units' = units)
       /\ (handled' # handled /\ branch' = "quote")
             => (pc' = "recv" /\ Len(units') = Len(units) + 1)]_vars

\* C6 witness: an event waits in the channel while the stop-profit limit
\* order is awaited.
C6_Witness ==
    /\ branch = "stopprofit"
    /\ pc = "sp_limit"
    /\ rx # <<>>

\* a call of the handler of cur has returned
CallReturned == issued' # issued /\ handled' = handled

\* a spawned unit has taken a step
UnitStepped == units' # units /\ Len(units') <= Len(units)

\* units after unit i has made its next call
Advanced(us, i) ==
    IF us[i].pc = "limit_sell" THEN SubSeq(us, 1, i - 1) \o SubSeq(us, i + 1, Len(us))
    ELSE [us EXCEPT ![i].pc = IF @ = "cancel" THEN "limit_buy" ELSE "limit_sell"]

\* C7: whatever the outcome of an exchange call, the handler goes on to the
\* same next call and the engine state it leaves is the same: the step taken
\* when a call returns is a function of the state before it alone.
C7_FailureIsNoOp ==
    [][/\ (CallReturned /\ pc = "sl_cancel")
             => /\ pc' = "sl_market"
                /\ Ops(issued') = Append(Ops(issued), <<"cancel_all_open_orders", RZero>>)
                /\ UNCHANGED engine_vars
       /\ (CallReturned /\ pc = "sl_market")
             => /\ pc' = "recv"
                /\ Len(issued') = 2
                /\ issued'[2].op \in {"market_sell", "market_buy"}
                /\ in_stoploss' /\ unrealized_pnl' = RZero
                /\ timer' = cur.transaction_time \div 1000
                /\ UNCHANGED <<position, strategy_data, cash, sigma, ak>>
       /\ (CallReturned /\ pc = "sp_cancel")
             => /\ pc' = IF position.position_amount = RZero THEN "recv" ELSE "sp_limit"
                /\ Ops(issued') = Append(Ops(issued), <<"cancel_all_open_orders", RZero>>)
                /\ UNCHANGED engine_vars
       /\ (CallReturned /\ pc = "sp_limit")
             => /\ pc' = "recv"
                /\ Len(issued') = 2
                /\ issued'[2].op \in {"limit_sell", "limit_buy"}
                /\ UNCHANGED engine_vars
       /\ UnitStepped
             => /\ \E i \in 1..Len(units) : units' = Advanced(units, i)
                /\ UNCHANGED engine_vars]_vars

\* C7 witness: both calls of a stoploss sequence failed and the engine is in
\* cooldown all the same.
C7_Witness ==
    /\ branch = "stoploss" /\ pc = "recv"
    /\ Len(issued) = 2 /\ ~issued[1].ok /\ ~issued[2].ok
    /\ in_stoploss /\ unrealized_pnl = RZero

\* C8: a step of a spawned unit changes nothing but that unit's own position
\* in its call sequence: EngineState, Position, the window, the consumer and
\* the snapshots of all units stay as they are.
C8_UnitsOnlyCall ==
    [][UnitStepped
          => /\ UNCHANGED <<strategy_data, position, cash, timer, in_stoploss,
                            unrealized_pnl, sigma, ak, pc, cur, rx, issued>>
             /\ \/ \E i \in 1..Len(units) :
                      units' = SubSeq(units, 1, i - 1) \o SubSeq(units, i + 1, Len(units))
                \/ /\ Len(units') = Len(units)
                   /\ \A j \in 1..Len(units) :
                         [units'[j] EXCEPT !.pc = "-"] = [units[j] EXCEPT !.pc = "-"]]_vars

\* C8 witness: a unit is past its cancel call while the engine state has moved
\* on from the snapshot it holds (a later tick was pushed, pnl is not zero).
C8_Witness ==
    \E i \in 1..Len(units) :
        /\ units[i].pc = "limit_sell"
        /\ units[i].last_wap # Back(strategy_data.wap)
        /\ unrealized_pnl # RZero

\* C9: position changes only in the step that receives an account update; no
\* step of on_tick, of its awaited calls or of a unit changes it.
C9_PositionOnlyByAccount ==
    [][position' # position
          => (pc = "recv" /\ handled' # handled /\ cur'.kind = "AccountUpdate")]_vars

\* C9 witness: the stoploss sequence has returned, its market order accepted,
\* and the position held locally is still the full short amount.
C9_Witness ==
    /\ branch = "stoploss" /\ pc = "recv" /\ Len(issued) = 2
    /\ issued[2].ok
    /\ position.position_amount = RInt(-5)

\* C10: an account update sets position_amount and entry_price from the first
\* entry of its position list with symbol = pair and position_side = BOTH, and
\* keeps both when there is none; it never changes in_stoploss, timer,
\* unrealized_pnl or the window.
C10_AccountUpdate ==
    [][(handled' # handled /\ cur'.kind = "AccountUpdate")
          => LET ps == cur'.positions
                 m  == {i \in 1..Len(ps) :
                           ps[i].symbol = "BTCUSDT" /\ ps[i].position_side = "BOTH"}
                 i0 == CHOOSE i \in m : \A j \in m : i <= j
             IN  /\ m = {} => position' = position
                 /\ m # {} => position' = [position_amount |-> ps[i0].position_amount,
                                           entry_price     |-> ps[i0].entry_price]
                 /\ UNCHANGED <<in_stoploss, timer, unrealized_pnl, strategy_data>>]_vars

\* C10 witness: an update without an entry for the pair in BOTH mode was
\* handled and the position set by an earlier update is still held.
C10_Witness ==
    /\ branch = "account"
    /\ \A i \in 1..Len(cur.positions) :
          ~(cur.positions[i].symbol = "BTCUSDT" /\ cur.positions[i].position_side = "BOTH")
    /\ cur.positions # <<>>
    /\ position = [position_amount |-> RInt(5), entry_price |-> RInt(100)]

\* C11: a tick handled before the estimate window since start has elapsed
\* (and every tick the calibrator is not ready for) takes the not-ready path:
\* it is pushed into the window, the handler returns without an await, no
\* exchange call is issued and no unit spawned, and in_stoploss, timer,
\* unrealized_pnl, the position and the stored intensity parameters are
\* unchanged; so such a tick is neither a stoploss trigger nor a cooldown exit.
C11_NotReadySkipped ==
    [][(handled' # handled /\ cur'.kind = "BookTicker")
          => /\ cur'.transaction_time <= start_time + config.estimate_window + 1
                   => branch' = "not_ready"
             /\ branch' = "not_ready"
                   => /\ strategy_data' = push(strategy_data, cur')
                      /\ pc' = "recv" /\ issued' = <<>> /\ units' = units
                      /\ UNCHANGED <<in_stoploss, timer, unrealized_pnl, ak,
                                     sigma, position, cash>>]_vars

\* C11 witness: a not-ready tick was handled in QUOTING while the position
\* and the pushed wap put the pnl below -stoploss, and nothing was issued.
C11_Witness ==
    /\ branch = "not_ready" /\ ~in_stoploss /\ pc = "recv" /\ issued = <<>>
    /\ stoploss_hit(pnl_update(position, Back(strategy_data.wap), unrealized_pnl))
    /\ unrealized_pnl = RZero

\* C12: in every reachable state the stored intensity parameters buy_a,
\* buy_k, sell_a and sell_k, which calculate_spread divides by, are all
\* strictly greater than 0, whatever estimate the calibrator returned.
C12_IntensityPositive ==
    /\ RLess(RZero, ak.buy_a) /\ RLess(RZero, ak.buy_k)
    /\ RLess(RZero, ak.sell_a) /\ RLess(RZero, ak.sell_k)

\* C13: a quote pair is dispatched only when at least one period (ms) has
\* passed since the previous dispatch: for consecutive dispatches at tick
\* times T1 < T2, T2 - T1 >= period; and each dispatch spawns one task that
\* starts at cancel-all and carries order_qty for its limit_buy and
\* limit_sell, and stamps timer with the tick's time.
C13_QuotePeriod ==
    [][(handled' # handled /\ branch' = "quote")
          => /\ q_time # 0 => cur'.transaction_time - q_time >= config.period
             /\ Len(units') = Len(units) + 1
             /\ units'[Len(units')].pc = "cancel"
             /\ units'[Len(units')].order_qty = config.order_qty
             /\ timer' = seconds(cur'.transaction_time)]_vars

\* C14: a ready tick handled in QUOTING takes the stop-profit arm exactly when
\* its updated unrealized_pnl is not below -stoploss, is above stopprofit and
\* a period has elapsed since timer; the arm issues cancel-all and then one
\* limit order that flattens the position (limit_sell of position_amount at
\* the latest best ask when long, limit_buy of |position_amount| at the latest
\* best bid when short); it changes neither in_stoploss nor timer, and
\* unrealized_pnl only by the tick's own update.
C14_StopProfitFlattens ==
    [][/\ (handled' # handled /\ cur'.kind = "BookTicker"
             /\ branch' # "not_ready" /\ ~in_stoploss)
          => (branch' = "stopprofit"
                <=> /\ ~stoploss_hit(unrealized_pnl')
                    /\ stopprofit_hit(unrealized_pnl')
                    /\ elapsed(timer, cur'.transaction_time, config.period))
       /\ branch' = "stopprofit"
          => /\ UNCHANGED <<in_stoploss, timer>>
             /\ handled' = handled => unrealized_pnl' = unrealized_pnl
       /\ (branch' = "stopprofit" /\ pc' = "recv")
          => /\ Len(issued') = 2
             /\ issued'[1].op = "cancel_all_open_orders"
             /\ IsLong(position)
                   => /\ issued'[2].op = "limit_sell"
                      /\ issued'[2].qty = position.position_amount
                      /\ issued'[2].price = Back(strategy_data'.ask_price)
             /\ ~IsLong(position)
                   => /\ IsShort(position)
                      /\ issued'[2].op = "limit_buy"
                      /\ issued'[2].qty = RAbs(position.position_amount)
                      /\ issued'[2].price = Back(strategy_data'.bid_price)]_vars

C16_Unserialized ==
    \A i \in 1..Len(units) :
       /\ ENABLED UnitStep(i, TRUE)
       /\ ENABLED UnitStep(i, FALSE)

\* C16 witness: two quote ticks were handled and the limit orders of the two
\* tasks were placed alternately: four orders rest, the two buys before the
\* two sells.
C16_Witness ==
    /\ handled = 2 /\ units = <<>> /\ branch = "quote"
    /\ Ops(orders) = << <<"limit_buy", config.order_qty>>,
                       <<"limit_buy", config.order_qty>>,
                       <<"limit_sell", config.order_qty>>,
                       <<"limit_sell", config.order_qty>> >>

\* inventory ratios q = position_amount / order_qty the monotonicity is
\* checked between
Inventories == {RInt(-2), RInt(-1), RNorm(-1, 2), RZero, RNorm(1, 2), RInt(1), RInt(2)}

ReadyArms == {"stoploss", "stopprofit", "quote", "idle", "wake", "cooldown"}

\* C17: whenever calculate_spread has been evaluated, for the sigma, sigma
\* multiplier and intensity parameters the engine then holds and any two
\* inventory ratios q1 < q2, the inventory term of the bid offset is strictly
\* larger at q2 and the inventory term of the ask offset strictly smaller.
C17_SkewMonotone ==
    branch \in ReadyArms
       => LET sf == RMul(sigma, config.sigma_multiplier)
          IN  \A q1, q2 \in Inventories :
                 RLess(q1, q2)
                    => /\ TermLess(bid_inventory_term(q1, sf, ak),
                                   bid_inventory_term(q2, sf, ak))
                       /\ TermLess(ask_inventory_term(q2, sf, ak),
                                   ask_inventory_term(q1, sf, ak))

\* C18: from the return of the stoploss cancel-all until the cooldown ends
\* (the market order pending, then in_stoploss true) no limit order of the
\* pair comes to rest on the exchange, whatever tasks earlier ticks spawned.
C18_NoLimitInCooldown ==
    [][(pc = "sl_market" \/ in_stoploss) => Len(orders') <= Len(orders)]_vars

\* flat, quoting, and unrealized_pnl still above stopprofit
StaleProfit ==
    /\ ~in_stoploss
    /\ ~IsLong(position) /\ ~IsShort(position)
    /\ stopprofit_hit(unrealized_pnl)

\* C19: once the position is flat again (after a stop-profit exit and the
\* account update that reports position_amount 0), a ready tick handled in
\* QUOTING with a period elapsed since timer dispatches a new quote pair: the
\* engine does not go on taking the stop-profit branch, cancelling on every
\* tick and placing nothing.
C19_QuotesAgain ==
    [][(/\ handled' # handled /\ cur'.kind = "BookTicker"
        /\ branch' # "not_ready"
        /\ ~in_stoploss
        /\ ~IsLong(position) /\ ~IsShort(position)
        /\ elapsed(timer, cur'.transaction_time, config.period))
          => branch' = "quote"]_vars

\* Why the engine never leaves that state by itself: with a flat position and
\* a stale unrealized_pnl above stopprofit, every step that does not change
\* the position keeps both, stamps no timer and spawns no quote task; a ready
\* tick with the period elapsed takes the stop-profit branch and only cancels.
StaleProfitStays ==
    [][(StaleProfit /\ position' = position)
          => /\ StaleProfit'
             /\ timer' = timer
             /\ Len(units') <= Len(units)
             /\ (handled' # handled /\ cur'.kind = "BookTicker")
                   => /\ branch' \in {"not_ready", "stopprofit", "idle"}
                      /\ branch' = "idle"
                            => ~elapsed(timer, cur'.transaction_time, config.period)
             /\ (handled' = handled /\ issued' # issued)
                   => issued'[Len(issued')].op = "cancel_all_open_orders"]_vars

\* C20: with stoploss >= 0, whenever the handler of an event has returned
\* unrealized_pnl is not below -stoploss; so the stoploss branch is never
\* taken with position_amount 0, and every market order of a stoploss has a
\* strictly positive quantity (market_buy only with position_amount < 0).
C20_PnlFloor ==
    /\ ~RLess(config.stoploss, RZero)
    /\ pc = "recv" => ~stoploss_hit(unrealized_pnl)
    /\ branch = "stoploss"
          => /\ IsLong(position) \/ IsShort(position)
             /\ \A i \in 1..Len(issued) :
                   issued[i].op \in {"market_sell", "market_buy"}
                      => /\ RLess(RZero, issued[i].qty)
                         /\ issued[i].op = "market_buy" => IsShort(position)

\* C20 witness: the stoploss of a short position has returned: its market
\* order was a market_buy of positive quantity and unrealized_pnl, which the
\* trigger found below -stoploss, is back at 0.
C20_Witness ==
    /\ branch = "stoploss" /\ pc = "recv" /\ in_stoploss
    /\ IsShort(position)
    /\ issued[Len(issued)].op = "market_buy"
    /\ RLess(RZero, issued[Len(issued)].qty)
    /\ unrealized_pnl = RZero
    /\ stoploss_hit(pnl_update(position, Back(strategy_data.wap), unrealized_pnl))

\* C21: between two consecutive account updates the stoploss market orders
\* the exchange accepted on one side never add up to more than the absolute
\* position held in that interval: one position is flattened at most once,
\* whatever stoploss_sleep is and however late the account update that
\* reports the flatten arrives.
C21_NoOverFlatten ==
    /\ ~RLess(RAbs(position.position_amount), flattened.market_sell)
    /\ ~RLess(RAbs(position.position_amount), flattened.market_buy)

====
